---- MODULE Spec2Model ----
(***************************************************************************)
(* Model of flask_user/emails.py: the six email-event functions, the       *)
(* template renderer, the backend dispatcher send_email and its two        *)
(* backends (flask_send_email over Flask-Mail, sg_send_email over          *)
(* SendGrid).                                                              *)
(*                                                                         *)
(* Python strings that the code processes character by character           *)
(* (str.replace, json.dumps) are sequences of one-character strings.       *)
(* Every call is recorded in the variable last: the operation, its         *)
(* arguments, the ordered log of the calls it made on its collaborators    *)
(* (template engine, send function, token manager, Flask-Mail, SendGrid    *)
(* client) and how it ended (a normal return or the exception that         *)
(* reached the caller).                                                    *)
(***************************************************************************)
EXTENDS Integers, Sequences, FiniteSets, TLC

VARIABLES um, app, last

vars == <<um, app, last>>

(***************************************************************************)
(* Strings                                                                 *)
(***************************************************************************)

\* the category tags, emails.py lines 141, 161, 182, 202, 223, 237
CAT_CONFIRM_EMAIL == <<"c","o","n","f","i","r","m"," ","e","m","a","i","l">>
CAT_FORGOT_PASSWORD == <<"f","o","r","g","o","t"," ","p","a","s","s","w","o","r","d">>
CAT_PASSWORD_CHANGED == <<"p","a","s","s","w","o","r","d"," ","c","h","a","n","g","e","d">>
CAT_REGISTERED == <<"r","e","g","i","s","t","e","r","e","d">>
CAT_USERNAME_CHANGED == <<"u","s","e","r","n","a","m","e"," ","c","h","a","n","g","e","d">>
CAT_INVITE == <<"i","n","v","i","t","e">>

Categories ==
  {CAT_CONFIRM_EMAIL, CAT_FORGOT_PASSWORD, CAT_PASSWORD_CHANGED,
   CAT_REGISTERED, CAT_USERNAME_CHANGED, CAT_INVITE}

\* s[i..] starts with p
StartsWithAt(s, i, p) ==
  /\ i + Len(p) - 1 <= Len(s)
  /\ \A k \in 1..Len(p) : s[i + k - 1] = p[k]

\* p occurs in s
Contains(s, p) == \E i \in 1..(Len(s) + 1) : StartsWithAt(s, i, p)

\* Python str.replace(old, new) for a non-empty old: one left-to-right pass
\* over non-overlapping occurrences; the inserted text is not rescanned
RECURSIVE ReplaceFrom(_, _, _, _)
ReplaceFrom(s, i, old, new) ==
  IF i > Len(s) THEN <<>>
  ELSE IF StartsWithAt(s, i, old)
       THEN new \o ReplaceFrom(s, i + Len(old), old, new)
       ELSE <<s[i]>> \o ReplaceFrom(s, i + 1, old, new)

StrReplace(s, old, new) == ReplaceFrom(s, 1, old, new)

(***************************************************************************)
(* Objects                                                                 *)
(***************************************************************************)

\* Python None, and a UserEmail object carrying an address
None == [isNone |-> TRUE, email |-> ""]
Obj(addr) == [isNone |-> FALSE, email |-> addr]

\* truthiness of an object reference and of a str
Truthy(o) == ~o.isNone
NonEmpty(str) == str # ""

Return == "return"
AssertionError == "AssertionError"

\* an entry of the call log
Call(fn, a) == [fn |-> fn, a |-> a]

(***************************************************************************)
(* Template renderer                                                       *)
(***************************************************************************)

NL == "\n"
CR == "\r"

TemplateError == "TemplateError"

RenderCall(filename, suffix, ctx) ==
  Call("render_template", [name |-> <<filename, suffix>>, ctx |-> ctx])

\* _render_email(filename, **kwargs): the template engine is the collaborator
\* r: the three texts it renders and the template (if any) at which it raises
_render_email(filename, ctx, r) ==
  LET c1 == <<RenderCall(filename, "_subject.txt", ctx)>>
      c2 == Append(c1, RenderCall(filename, "_message.html", ctx))
      c3 == Append(c2, RenderCall(filename, "_message.txt", ctx))
      subject == StrReplace(StrReplace(r.subject, <<NL>>, <<" ">>), <<CR>>, <<" ">>)
      failed(log) == [ok |-> FALSE, log |-> log, subject |-> <<>>,
                      html |-> <<>>, text |-> <<>>]
  IN  IF r.fail = "subject" THEN failed(c1)
      ELSE IF r.fail = "html" THEN failed(c2)
      ELSE IF r.fail = "text" THEN failed(c3)
      ELSE [ok |-> TRUE, log |-> c3, subject |-> subject,
            html |-> r.html, text |-> r.text]

(***************************************************************************)
(* Email-event functions                                                   *)
(***************************************************************************)

Result(log, outcome) == [log |-> log, outcome |-> outcome]

SendFunctionError == "SendFunctionError"

\* faulty variant: a failed send is tried a second time
RenderAndSend_retry(log0, template, ctx, email, typ, env) ==
  LET r == _render_email(template, ctx, env.render)
      sendCall == Call("send_email_function",
                       [recipient |-> email, subject |-> r.subject,
                        html |-> r.html, text |-> r.text, typ |-> typ])
  IN  IF ~r.ok THEN Result(log0 \o r.log, TemplateError)
      ELSE IF env.send = "ok" THEN Result(Append(log0 \o r.log, sendCall), Return)
      ELSE Result(log0 \o r.log \o <<sendCall, sendCall>>, SendFunctionError)

\* the tail shared by the six event functions: render subject, html message
\* and text message, then call user_manager.send_email_function once.
\* env.render is the template engine, env.send whether the send function
\* returns ("ok") or raises
RenderAndSend(log0, template, ctx, email, typ, env) ==
  LET r == _render_email(template, ctx, env.render)
      sendCall == Call("send_email_function",
                       [recipient |-> email, subject |-> r.subject,
                        html |-> r.html, text |-> r.text, typ |-> typ])
  IN  IF ~r.ok THEN Result(log0 \o r.log, TemplateError)
      ELSE Result(Append(log0 \o r.log, sendCall),
                  IF env.send = "ok" THEN Return ELSE SendFunctionError)

\* get_primary_user_email(user): found is what db_adapter.find_first_object
\* returns (None when the user has no primary UserEmail)
get_primary_user_email(m, user, found) ==
  IF m.UserEmailClass THEN found ELSE user

PrimaryLookupLog(m, user) ==
  IF m.UserEmailClass
  THEN <<Call("find_first_object", [user_id |-> user.id, is_primary |-> TRUE])>>
  ELSE <<>>

send_confirm_email_email(m, user, user_email, confirm_email_link, env) ==
  IF ~m.enable_email THEN Result(<<>>, Return)
  ELSE IF ~m.send_registered_email /\ ~m.enable_confirm_email
  THEN Result(<<>>, Return)
  ELSE LET email == IF Truthy(user_email) THEN user_email.email ELSE user.email
       IN  IF ~NonEmpty(email) THEN Result(<<>>, AssertionError)
           ELSE RenderAndSend(<<>>, m.confirm_email_email_template,
                  [user |-> user, app_name |-> m.app_name,
                   confirm_email_link |-> confirm_email_link],
                  email, CAT_CONFIRM_EMAIL, env)

send_forgot_password_email(m, user, user_email, reset_password_link, env) ==
  IF ~m.enable_email THEN Result(<<>>, Return)
  ELSE IF ~m.enable_forgot_password THEN Result(<<>>, AssertionError)
  ELSE LET email == IF Truthy(user_email) THEN user_email.email ELSE user.email
       IN  IF ~NonEmpty(email) THEN Result(<<>>, AssertionError)
           ELSE RenderAndSend(<<>>, m.forgot_password_email_template,
                  [user |-> user, app_name |-> m.app_name,
                   reset_password_link |-> reset_password_link],
                  email, CAT_FORGOT_PASSWORD, env)

\* faulty variant: the send_password_changed_email flag is not consulted
send_password_changed_email_unflagged(m, user, found, env) ==
  IF ~m.enable_email THEN Result(<<>>, Return)
  ELSE LET user_email == get_primary_user_email(m, user, found)
           log0 == PrimaryLookupLog(m, user)
       IN  IF ~Truthy(user_email) THEN Result(log0, AssertionError)
           ELSE IF ~NonEmpty(user_email.email) THEN Result(log0, AssertionError)
           ELSE RenderAndSend(log0, m.password_changed_email_template,
                  [user |-> user, app_name |-> m.app_name],
                  user_email.email, CAT_PASSWORD_CHANGED, env)

send_password_changed_email(m, user, found, env) ==
  IF ~m.enable_email THEN Result(<<>>, Return)
  ELSE IF ~m.send_password_changed_email THEN Result(<<>>, Return)
  ELSE LET user_email == get_primary_user_email(m, user, found)
           log0 == PrimaryLookupLog(m, user)
       IN  IF ~Truthy(user_email) THEN Result(log0, AssertionError)
           ELSE IF ~NonEmpty(user_email.email) THEN Result(log0, AssertionError)
           ELSE RenderAndSend(log0, m.password_changed_email_template,
                  [user |-> user, app_name |-> m.app_name],
                  user_email.email, CAT_PASSWORD_CHANGED, env)

\* faulty variant: the send_registered_email flag is not consulted
send_registered_email_unflagged(m, user, user_email, confirm_email_link, env) ==
  IF ~m.enable_email THEN Result(<<>>, Return)
  ELSE LET email == IF Truthy(user_email) THEN user_email.email ELSE user.email
       IN  IF ~NonEmpty(email) THEN Result(<<>>, AssertionError)
           ELSE RenderAndSend(<<>>, m.registered_email_template,
                  [user |-> user, app_name |-> m.app_name,
                   confirm_email_link |-> confirm_email_link],
                  email, CAT_REGISTERED, env)

send_registered_email(m, user, user_email, confirm_email_link, env) ==
  IF ~m.enable_email THEN Result(<<>>, Return)
  ELSE IF ~m.send_registered_email THEN Result(<<>>, Return)
  ELSE LET email == IF Truthy(user_email) THEN user_email.email ELSE user.email
       IN  IF ~NonEmpty(email) THEN Result(<<>>, AssertionError)
           ELSE RenderAndSend(<<>>, m.registered_email_template,
                  [user |-> user, app_name |-> m.app_name,
                   confirm_email_link |-> confirm_email_link],
                  email, CAT_REGISTERED, env)

send_username_changed_email(m, user, found, env) ==
  IF ~m.enable_email THEN Result(<<>>, Return)
  ELSE IF ~m.send_username_changed_email THEN Result(<<>>, Return)
  ELSE LET user_email == get_primary_user_email(m, user, found)
           log0 == PrimaryLookupLog(m, user)
       IN  IF ~Truthy(user_email) THEN Result(log0, AssertionError)
           ELSE IF ~NonEmpty(user_email.email) THEN Result(log0, AssertionError)
           ELSE RenderAndSend(log0, m.username_changed_email_template,
                  [user |-> user, app_name |-> m.app_name],
                  user_email.email, CAT_USERNAME_CHANGED, env)

\* faulty variant: enable_email is not consulted
send_invite_email_unguarded(m, user, accept_invite_link, env) ==
  RenderAndSend(<<>>, m.invite_email_template,
    [user |-> user, app_name |-> m.app_name,
     accept_invite_link |-> accept_invite_link],
    user.email, CAT_INVITE, env)

\* no assertion on user.email here (emails.py lines 225-237)
send_invite_email(m, user, accept_invite_link, env) ==
  IF ~m.enable_email THEN Result(<<>>, Return)
  ELSE RenderAndSend(<<>>, m.invite_email_template,
         [user |-> user, app_name |-> m.app_name,
          accept_invite_link |-> accept_invite_link],
         user.email, CAT_INVITE, env)

(***************************************************************************)
(* SendGrid backend                                                        *)
(***************************************************************************)

\* faulty variant: the last marker spelling is missing from the list
_TOKEN_PARAMS_three ==
  << <<"[","["," ","T","O","K","E","N"," ","]","]">>,
     <<"[","[","T","O","K","E","N","]","]">>,
     <<"[","["," ","t","o","k","e","n"," ","]","]">> >>

\* _TOKEN_PARAMS, in the order the loop visits them
_TOKEN_PARAMS ==
  << <<"[","["," ","T","O","K","E","N"," ","]","]">>,
     <<"[","[","T","O","K","E","N","]","]">>,
     <<"[","["," ","t","o","k","e","n"," ","]","]">>,
     <<"[","[","t","o","k","e","n","]","]">> >>

\* for _PARAM in _TOKEN_PARAMS: body = body.replace(_PARAM, send_token)
RECURSIVE SubstituteFrom(_, _, _)
SubstituteFrom(body, send_token, k) ==
  IF k > Len(_TOKEN_PARAMS) THEN body
  ELSE SubstituteFrom(StrReplace(body, _TOKEN_PARAMS[k], send_token),
                      send_token, k + 1)

SubstituteTokens(body, send_token) == SubstituteFrom(body, send_token, 1)

\* json.dumps of a str: quotes and backslashes are escaped
RECURSIVE JsonEscape(_)
JsonEscape(str) ==
  IF Len(str) = 0 THEN <<>>
  ELSE (IF Head(str) \in {"\"", "\\"} THEN <<"\\", Head(str)>> ELSE <<Head(str)>>)
       \o JsonEscape(Tail(str))

JsonString(str) == <<"\"">> \o JsonEscape(str) \o <<"\"">>

\* json.dumps of a dict of str to str, given as its (key, value) pairs in
\* insertion order, with the default separators ", " and ": "
RECURSIVE JsonMembers(_)
JsonMembers(pairs) ==
  IF Len(pairs) = 0 THEN <<>>
  ELSE JsonString(pairs[1][1]) \o <<":", " ">> \o JsonString(pairs[1][2])
       \o (IF Len(pairs) > 1 THEN <<",", " ">> ELSE <<>>)
       \o JsonMembers(Tail(pairs))

JsonDumps(pairs) == <<"{">> \o JsonMembers(pairs) \o <<"}">>

CustomArg(key, value) == [key |-> key, value |-> value]
Content(type, value) == [type |-> type, value |-> value]

SendGridError == "SendGridError"

\* faulty variant: the html content block is added before the plain-text one
sg_send_email_html_first(cfg, recipient, subject, html_message, text_message, typ, env) ==
  LET from_addr == cfg.MAIL_FROM_ADDR
      friendly_from == cfg.MAIL_FRIENDLY_FROM
      send_token == env.token
      text == SubstituteTokens(text_message, send_token)
      html == SubstituteTokens(html_message, send_token)
      meta == << <<"type", typ>>, <<"friendly_from", friendly_from>> >>
      mail == [personalizations |-> << [tos |-> <<recipient>>] >>,
               subject |-> subject,
               from |-> [email |-> from_addr, name |-> friendly_from],
               custom_args |-> << CustomArg("from_addr", from_addr),
                                  CustomArg("token", send_token),
                                  CustomArg("meta", JsonDumps(meta)) >>,
               content |-> << Content("text/html", html),
                              Content("text/plain", text) >>]
      log == << Call("get_next_token", <<>>), Call("sendgrid_post", mail) >>
  IN  Result(log, IF env.post = "ok" THEN Return ELSE SendGridError)

\* sg_send_email(recipient, subject, html_message, text_message, typ).
\* env.token is what token_manager.get_next_token() returns, env.post whether
\* the client's post returns ("ok") or raises
sg_send_email(cfg, recipient, subject, html_message, text_message, typ, env) ==
  LET from_addr == cfg.MAIL_FROM_ADDR
      friendly_from == cfg.MAIL_FRIENDLY_FROM
      send_token == env.token
      text == SubstituteTokens(text_message, send_token)
      html == SubstituteTokens(html_message, send_token)
      meta == << <<"type", typ>>, <<"friendly_from", friendly_from>> >>
      mail == [personalizations |-> << [tos |-> <<recipient>>] >>,
               subject |-> subject,
               from |-> [email |-> from_addr, name |-> friendly_from],
               custom_args |-> << CustomArg("from_addr", from_addr),
                                  CustomArg("token", send_token),
                                  CustomArg("meta", JsonDumps(meta)) >>,
               content |-> << Content("text/plain", text),
                              Content("text/html", html) >>]
      log == << Call("get_next_token", <<>>), Call("sendgrid_post", mail) >>
  IN  Result(log, IF env.post = "ok" THEN Return ELSE SendGridError)

(***************************************************************************)
(* Flask-Mail backend                                                      *)
(***************************************************************************)

NOT_INSTALLED == "SendEmailError: Flask-Mail has not been installed."
NOT_INITIALIZED == "SendEmailError: Flask-Mail has not been initialized."
CONNECTION_ERROR ==
  "SendEmailError: SMTP Connection error: Check your MAIL_SERVER and MAIL_PORT settings."
AUTHENTICATION_ERROR ==
  "SendEmailError: SMTP Authentication error: Check your MAIL_USERNAME and MAIL_PASSWORD settings."

\* the class a name denotes: under Python 3 socket.error is OSError itself
ClassOf(name, py) ==
  IF py = 3 /\ name \in {"socket.error", "IOError", "EnvironmentError"}
  THEN "OSError" ELSE name

\* the base class of a class in the interpreter's exception hierarchy:
\* since Python 3.4 smtplib.SMTPException derives from OSError
BaseOf(cls, py) ==
  CASE cls = "socket.gaierror" -> ClassOf("socket.error", py)
    [] cls = "socket.error" -> "IOError"
    [] cls = "IOError" -> "EnvironmentError"
    [] cls = "OSError" -> "Exception"
    [] cls = "smtplib.SMTPAuthenticationError" -> "smtplib.SMTPResponseException"
    [] cls = "smtplib.SMTPResponseException" -> "smtplib.SMTPException"
    [] cls = "smtplib.SMTPException" -> IF py = 3 THEN "OSError" ELSE "Exception"
    [] OTHER -> "Exception"

RECURSIVE IsSubclass(_, _, _)
IsSubclass(cls, of, py) ==
  \/ cls = of
  \/ cls # "Exception" /\ IsSubclass(BaseOf(cls, py), of, py)

\* whether "except <names>" catches an exception of class exc
Catches(names, exc, py) ==
  \E n \in names : IsSubclass(ClassOf(exc, py), ClassOf(n, py), py)

\* the except clauses of flask_send_email, tried in order
TranslateException(exc, py) ==
  IF Catches({"socket.gaierror", "socket.error"}, exc, py) THEN CONNECTION_ERROR
  ELSE IF Catches({"smtplib.SMTPAuthenticationError"}, exc, py)
  THEN AUTHENTICATION_ERROR
  ELSE exc

\* faulty variant: the extension registry is checked before the import
flask_send_email_ext_first(cfg, recipient, subject, html_message, text_message, typ, env) ==
  LET message == [subject |-> subject, recipients |-> <<recipient>>,
                  html |-> html_message, body |-> text_message]
      c1 == <<Call("Message", message)>>
      c2 == Append(c1, Call("mail_engine.send", message))
  IN  IF ~cfg.mail_ext THEN Result(<<>>, NOT_INITIALIZED)
      ELSE IF ~cfg.flask_mail_installed THEN Result(<<>>, NOT_INSTALLED)
      ELSE IF env.raises # "none" /\ env.at = "Message"
      THEN Result(c1, TranslateException(env.raises, cfg.py))
      ELSE IF env.raises # "none"
      THEN Result(c2, TranslateException(env.raises, cfg.py))
      ELSE Result(c2, Return)

\* flask_send_email(recipient, subject, html_message, text_message, typ).
\* env.raises is the exception raised inside the try block ("none" for none)
\* and env.at the statement raising it: the Message constructor or send
flask_send_email(cfg, recipient, subject, html_message, text_message, typ, env) ==
  LET message == [subject |-> subject, recipients |-> <<recipient>>,
                  html |-> html_message, body |-> text_message]
      c1 == <<Call("Message", message)>>
      c2 == Append(c1, Call("mail_engine.send", message))
  IN  IF ~cfg.flask_mail_installed THEN Result(<<>>, NOT_INSTALLED)
      ELSE IF ~cfg.mail_ext THEN Result(<<>>, NOT_INITIALIZED)
      ELSE IF env.raises # "none" /\ env.at = "Message"
      THEN Result(c1, TranslateException(env.raises, cfg.py))
      ELSE IF env.raises # "none"
      THEN Result(c2, TranslateException(env.raises, cfg.py))
      ELSE Result(c2, Return)

(***************************************************************************)
(* Backend dispatcher                                                      *)
(***************************************************************************)

\* faulty variant: the selector is compared without regard to case
send_email_any_case(cfg, recipient, subject, html_message, text_message, typ, env) ==
  LET args == [recipient |-> recipient, subject |-> subject,
               html_message |-> html_message, text_message |-> text_message,
               typ |-> typ]
      sg == cfg.mail \in {"sendgrid", "SendGrid", "SENDGRID"}
      r == IF sg
           THEN sg_send_email(cfg, recipient, subject, html_message,
                              text_message, typ, env)
           ELSE flask_send_email(cfg, recipient, subject, html_message,
                                 text_message, typ, env)
      entry == IF sg THEN Call("sg_send_email", args)
               ELSE Call("flask_send_email", args)
  IN  Result(<<entry>> \o r.log, r.outcome)

\* send_email(*args)
send_email(cfg, recipient, subject, html_message, text_message, typ, env) ==
  LET args == [recipient |-> recipient, subject |-> subject,
               html_message |-> html_message, text_message |-> text_message,
               typ |-> typ]
      r == IF cfg.mail = "sendgrid"
           THEN sg_send_email(cfg, recipient, subject, html_message,
                              text_message, typ, env)
           ELSE flask_send_email(cfg, recipient, subject, html_message,
                                 text_message, typ, env)
      entry == IF cfg.mail = "sendgrid" THEN Call("sg_send_email", args)
               ELSE Call("flask_send_email", args)
  IN  Result(<<entry>> \o r.log, r.outcome)

(***************************************************************************)
(* Inputs                                                                  *)
(***************************************************************************)

\* how many times a marker (or other piece) is repeated in a text body
MaxRepeat == 2

Flags ==
  {"enable_email", "enable_confirm_email", "enable_forgot_password",
   "send_password_changed_email", "send_registered_email",
   "send_username_changed_email"}

\* user_manager: every combination of the feature flags, with and without
\* a UserEmail class in the db adapter
UserManager(on, hasUserEmailClass) ==
  [enable_email |-> "enable_email" \in on,
   enable_confirm_email |-> "enable_confirm_email" \in on,
   enable_forgot_password |-> "enable_forgot_password" \in on,
   send_password_changed_email |-> "send_password_changed_email" \in on,
   send_registered_email |-> "send_registered_email" \in on,
   send_username_changed_email |-> "send_username_changed_email" \in on,
   UserEmailClass |-> hasUserEmailClass,
   app_name |-> "AppName",
   confirm_email_email_template |-> "emails/confirm_email",
   forgot_password_email_template |-> "emails/forgot_password",
   password_changed_email_template |-> "emails/password_changed",
   registered_email_template |-> "emails/registered",
   username_changed_email_template |-> "emails/username_changed",
   invite_email_template |-> "emails/invite"]

UserManagers == {UserManager(on, c) : on \in SUBSET Flags, c \in BOOLEAN}

\* current_app: config["mail"], whether extensions has 'mail', whether
\* flask_mail can be imported, the interpreter's major version, the sender
App(mail, ext, installed, py) ==
  [mail |-> mail, mail_ext |-> ext, flask_mail_installed |-> installed,
   py |-> py,
   MAIL_FROM_ADDR |-> "noreply@example.com",
   MAIL_FRIENDLY_FROM |-> <<"A","c","m","e"," ","\"","H","Q","\"">>]

MailValues == {"sendgrid", "SendGrid", "smtp"}

Apps ==
  {App(mail, ext, installed, py) :
     mail \in MailValues, ext \in BOOLEAN, installed \in BOOLEAN, py \in {2, 3}}

User(addr) == [isNone |-> FALSE, email |-> addr, id |-> 7]
Users == {User(""), User("user@example.com")}
UserEmails == {None, Obj(""), Obj("alt@example.com")}

Link == "http://example.com/action/abc"

\* what the template engine does in a call of an event function
Render(fail) ==
  [fail |-> fail,
   subject |-> <<"H","i",NL,"y","o","u",CR,NL>>,
   html |-> <<"<","p",">","H","i","<","/","p",">">>,
   text |-> <<"H","i">>]
Renders == {Render(f) : f \in {"none", "subject", "text"}}

EventEnvs(founds) == [render : Renders, send : {"ok", "raise"}, found : founds]

RECURSIVE Repeat(_, _)
Repeat(piece, k) ==
  IF k = 0 THEN <<>> ELSE piece \o <<".">> \o Repeat(piece, k - 1)

\* the four marker spellings a template may hold
MarkerSpellings ==
  << <<"[","["," ","T","O","K","E","N"," ","]","]">>,
     <<"[","[","T","O","K","E","N","]","]">>,
     <<"[","["," ","t","o","k","e","n"," ","]","]">>,
     <<"[","[","t","o","k","e","n","]","]">> >>

NearMiss == <<"[","[","T","o","k","e","n","]","]">>
Plain == <<"H","i">>
AllMarkers ==
  MarkerSpellings[4] \o MarkerSpellings[3] \o <<" ">> \o MarkerSpellings[2]
    \o <<"[">> \o MarkerSpellings[1] \o <<"]">> \o MarkerSpellings[4]

\* what a body is made of: each marker, a near miss, plain text
Pieces == MarkerSpellings \o <<NearMiss, Plain>>

\* the bodies: each piece repeated 1..MaxRepeat times, then a body holding
\* all four markers and the empty body
NumBodies == Len(Pieces) * MaxRepeat + 2

Body(i) ==
  IF i = NumBodies THEN <<>>
  ELSE IF i = NumBodies - 1 THEN AllMarkers
  ELSE Repeat(Pieces[((i - 1) % Len(Pieces)) + 1], ((i - 1) \div Len(Pieces)) + 1)

CategorySeq ==
  <<CAT_CONFIRM_EMAIL, CAT_FORGOT_PASSWORD, CAT_PASSWORD_CHANGED,
    CAT_REGISTERED, CAT_USERNAME_CHANGED, CAT_INVITE>>

RecipientSeq == <<"user@example.com", "alt@example.com">>

\* the argument tuples of send_email: every body as the text message, with
\* another body inside the html message, the categories and recipients in turn
SendArgs(i) ==
  [recipient |-> RecipientSeq[(i % Len(RecipientSeq)) + 1],
   subject |-> <<"H","i"," ">> \o CategorySeq[(i % Len(CategorySeq)) + 1],
   html_message |-> <<"<","p",">">> \o Body(NumBodies + 1 - i) \o <<"<","/","p",">">>,
   text_message |-> Body(i),
   typ |-> CategorySeq[(i % Len(CategorySeq)) + 1]]

SendArgSet == {SendArgs(i) : i \in 1..NumBodies}

\* tokens are longer than the text between the brackets of any marker
Tokens ==
  { <<"a","7","f","3","c","9","e","1">>, <<"0","b","4","4","d","2","6","e">> }
NoToken == <<>>

Exceptions ==
  {"socket.gaierror", "socket.error", "smtplib.SMTPAuthenticationError",
   "ValueError"}

\* what the collaborators of the selected backend do in a call of send_email
BackendEnvs(cfg) ==
  IF cfg.mail = "sendgrid"
  THEN [token : Tokens, post : {"ok", "raise"}, raises : {"none"}, at : {"send"}]
  ELSE {e \in [token : {NoToken}, post : {"ok"},
               raises : Exceptions \cup {"none"}, at : {"Message", "send"}] :
          e.raises = "none" => e.at = "send"}

(***************************************************************************)
(* State machine                                                           *)
(***************************************************************************)

NoCall == [op |-> "none", args |-> <<>>, env |-> <<>>, log |-> <<>>,
           outcome |-> Return]

Record(op, args, env, r) ==
  [op |-> op, args |-> args, env |-> env, log |-> r.log, outcome |-> r.outcome]

EventArgs(user, user_email) == [user |-> user, user_email |-> user_email]

SendConfirmEmailEmail ==
  /\ \E user \in Users, user_email \in UserEmails, env \in EventEnvs({None}) :
       last' = Record("send_confirm_email_email", EventArgs(user, user_email), env,
                      send_confirm_email_email(um, user, user_email, Link, env))
  /\ UNCHANGED <<um, app>>

SendForgotPasswordEmail ==
  /\ \E user \in Users, user_email \in UserEmails, env \in EventEnvs({None}) :
       last' = Record("send_forgot_password_email", EventArgs(user, user_email), env,
                      send_forgot_password_email(um, user, user_email, Link, env))
  /\ UNCHANGED <<um, app>>

SendPasswordChangedEmail ==
  /\ \E user \in Users, env \in EventEnvs(UserEmails) :
       last' = Record("send_password_changed_email", EventArgs(user, None), env,
                      send_password_changed_email(um, user, env.found, env))
  /\ UNCHANGED <<um, app>>

SendRegisteredEmail ==
  /\ \E user \in Users, user_email \in UserEmails, env \in EventEnvs({None}) :
       last' = Record("send_registered_email", EventArgs(user, user_email), env,
                      send_registered_email(um, user, user_email, Link, env))
  /\ UNCHANGED <<um, app>>

SendUsernameChangedEmail ==
  /\ \E user \in Users, env \in EventEnvs(UserEmails) :
       last' = Record("send_username_changed_email", EventArgs(user, None), env,
                      send_username_changed_email(um, user, env.found, env))
  /\ UNCHANGED <<um, app>>

SendInviteEmail ==
  /\ \E user \in Users, env \in EventEnvs({None}) :
       last' = Record("send_invite_email", EventArgs(user, None), env,
                      send_invite_email(um, user, Link, env))
  /\ UNCHANGED <<um, app>>

SendEmail ==
  /\ \E a \in SendArgSet, env \in BackendEnvs(app) :
       last' = Record("send_email", a, env,
                      send_email(app, a.recipient, a.subject, a.html_message,
                                 a.text_message, a.typ, env))
  /\ UNCHANGED <<um, app>>

\* the event functions, under every user_manager configuration
InitEvents ==
  /\ um \in UserManagers
  /\ app = App("smtp", TRUE, TRUE, 3)
  /\ last = NoCall

NextEvents ==
  \/ SendConfirmEmailEmail
  \/ SendForgotPasswordEmail
  \/ SendPasswordChangedEmail
  \/ SendRegisteredEmail
  \/ SendUsernameChangedEmail
  \/ SendInviteEmail

SpecEvents == InitEvents /\ [][NextEvents]_vars

\* the dispatcher and its backends, under every application configuration
InitBackend ==
  /\ um = UserManager(Flags, FALSE)
  /\ app \in Apps
  /\ last = NoCall

NextBackend == SendEmail

SpecBackend == InitBackend /\ [][NextBackend]_vars

(***************************************************************************)
(* Properties of the event functions (checked under SpecEvents)            *)
(***************************************************************************)

EventOps ==
  {"send_confirm_email_email", "send_forgot_password_email",
   "send_password_changed_email", "send_registered_email",
   "send_username_changed_email", "send_invite_email"}

IsEvent == last.op \in EventOps

\* the positions of the log at which fn was called
CallsOf(log, fn) == {i \in 1..Len(log) : log[i].fn = fn}
NumCalls(log, fn) == Cardinality(CallsOf(log, fn))

NoRender == NumCalls(last.log, "render_template") = 0
NoSend == NumCalls(last.log, "send_email_function") = 0

\* the event function op run under user_manager m on the given inputs
RunEvent(m, op, args, env) ==
  CASE op = "send_confirm_email_email" ->
         send_confirm_email_email(m, args.user, args.user_email, Link, env)
    [] op = "send_forgot_password_email" ->
         send_forgot_password_email(m, args.user, args.user_email, Link, env)
    [] op = "send_password_changed_email" ->
         send_password_changed_email(m, args.user, env.found, env)
    [] op = "send_registered_email" ->
         send_registered_email(m, args.user, args.user_email, Link, env)
    [] op = "send_username_changed_email" ->
         send_username_changed_email(m, args.user, env.found, env)
    [] op = "send_invite_email" ->
         send_invite_email(m, args.user, Link, env)

\* C1: in each of the six event functions, whatever the other flags and the
\* arguments, when enable_email is false the call returns normally and makes
\* neither a template render nor a call of the send function
C1_DisabledEmailIsNoOp ==
  (IsEvent /\ ~um.enable_email) =>
     (last.outcome = Return /\ NoRender /\ NoSend)

C1_Witness ==
  /\ last.op = "send_forgot_password_email"
  /\ ~um.enable_email /\ ~um.enable_forgot_password
  /\ um.send_registered_email
  /\ last.args.user.email = ""
  /\ last.outcome = Return

\* the per-event flags and the event each one belongs to
PerEventFlags == Flags \ {"enable_email"}

EventOf(f) ==
  CASE f = "enable_confirm_email" -> "send_confirm_email_email"
    [] f = "enable_forgot_password" -> "send_forgot_password_email"
    [] f = "send_password_changed_email" -> "send_password_changed_email"
    [] f = "send_registered_email" -> "send_registered_email"
    [] f = "send_username_changed_email" -> "send_username_changed_email"

AllOn == UserManager(Flags, um.UserEmailClass)

\* every flag is on except f
OnlyOff(f) == um = UserManager(Flags \ {f}, um.UserEmailClass)

\* the call made what it makes, on the same inputs, with every flag on
SameAsAllOn == last.log = RunEvent(AllOn, last.op, last.args, last.env).log

\* C2 as stated: switching off one per-event flag alone suppresses the send of
\* its event (confirm-email included) and leaves every other event as it was
C2_Original ==
  \A f \in PerEventFlags :
    (IsEvent /\ OnlyOff(f)) =>
       /\ last.op = EventOf(f) => NoSend
       /\ last.op # EventOf(f) => SameAsAllOn

\* C2 amended: that holds for forgot-password, password-changed, registered and
\* username-changed; switching off enable_confirm_email alone does not suppress
\* the confirm-email send, which is suppressed when send_registered_email is
\* off as well
C2_Amended ==
  /\ \A f \in PerEventFlags :
       (IsEvent /\ OnlyOff(f)) =>
          /\ (last.op = EventOf(f) /\ f # "enable_confirm_email") => NoSend
          /\ (last.op # EventOf(f) \/ f = "enable_confirm_email") => SameAsAllOn
  /\ (last.op = "send_confirm_email_email" /\ um.enable_email
        /\ ~um.enable_confirm_email /\ ~um.send_registered_email) => NoSend

C2_Witness ==
  /\ last.op = "send_confirm_email_email"
  /\ OnlyOff("enable_confirm_email")
  /\ ~NoSend

\* whether the enablement precondition of event op holds under user_manager m
Precondition(m, op) ==
  CASE op = "send_confirm_email_email" ->
         m.send_registered_email \/ m.enable_confirm_email
    [] op = "send_forgot_password_email" -> m.enable_forgot_password
    [] op = "send_password_changed_email" -> m.send_password_changed_email
    [] op = "send_registered_email" -> m.send_registered_email
    [] op = "send_username_changed_email" -> m.send_username_changed_email
    [] op = "send_invite_email" -> TRUE

GuardsPassed == IsEvent /\ um.enable_email /\ Precondition(um, last.op)

\* the address an event resolves: the UserEmail argument's if one is given,
\* the primary UserEmail's for the two events that look it up, else the User's
LookupEvents == {"send_password_changed_email", "send_username_changed_email"}

Resolved ==
  IF last.op \in LookupEvents /\ um.UserEmailClass THEN last.env.found.email
  ELSE IF Truthy(last.args.user_email) THEN last.args.user_email.email
  ELSE last.args.user.email

\* C3 as stated: once the guards have passed, the send function gets the
\* resolved address, and an empty resolved address fails an assertion before
\* any render or send, in all six events, invite included
C3_Original ==
  GuardsPassed =>
     IF Resolved = ""
     THEN last.outcome = AssertionError /\ NoRender /\ NoSend
     ELSE \A i \in CallsOf(last.log, "send_email_function") :
            last.log[i].a.recipient = Resolved

\* C9 as stated: with email enabled, an event whose enablement precondition
\* fails returns normally, without rendering and without sending
C9_Original ==
  (IsEvent /\ um.enable_email /\ ~Precondition(um, last.op)) =>
     (last.outcome = Return /\ NoRender /\ NoSend)

\* C9 amended: that holds for confirm-email, password-changed, registered and
\* username-changed; forgot-password with enable_forgot_password off does not
\* return normally: it fails an assertion, still without render or send
C9_Amended ==
  (IsEvent /\ um.enable_email /\ ~Precondition(um, last.op)) =>
     /\ NoRender /\ NoSend
     /\ last.outcome =
          IF last.op = "send_forgot_password_email" THEN AssertionError ELSE Return

C9_Witness ==
  /\ last.op = "send_forgot_password_email"
  /\ um.enable_email /\ ~um.enable_forgot_password
  /\ last.args.user.email # ""
  /\ last.outcome = AssertionError

CategoryOf(op) ==
  CASE op = "send_confirm_email_email" -> CAT_CONFIRM_EMAIL
    [] op = "send_forgot_password_email" -> CAT_FORGOT_PASSWORD
    [] op = "send_password_changed_email" -> CAT_PASSWORD_CHANGED
    [] op = "send_registered_email" -> CAT_REGISTERED
    [] op = "send_username_changed_email" -> CAT_USERNAME_CHANGED
    [] op = "send_invite_email" -> CAT_INVITE

RenderSuffixes == <<"_subject.txt", "_message.html", "_message.txt">>

\* the three renders of one email, in order, end right before position i
RendersCompleteBefore(log, i) ==
  /\ i > 3
  /\ \A k \in 1..3 :
       /\ log[i - 4 + k].fn = "render_template"
       /\ log[i - 4 + k].a.name[2] = RenderSuffixes[k]
       /\ log[i - 4 + k].a.name[1] = log[i - 3].a.name[1]

\* C10: one call of an event function calls the send function at most once,
\* only after the three renders have completed, with the event's own category;
\* a failing render or send reaches the caller and nothing is tried again
C10_SingleSendAfterRender ==
  IsEvent =>
     /\ NumCalls(last.log, "send_email_function") <= 1
     /\ NumCalls(last.log, "render_template") <= 3
     /\ \A i \in CallsOf(last.log, "send_email_function") :
          /\ i = Len(last.log)
          /\ RendersCompleteBefore(last.log, i)
          /\ last.log[i].a.typ = CategoryOf(last.op)
          /\ last.env.send = "raise" => last.outcome = SendFunctionError
          /\ last.env.send = "ok" => last.outcome = Return
     /\ (~NoRender /\ last.env.render.fail # "none") =>
          /\ last.outcome = TemplateError
          /\ NoSend
          /\ last.log[Len(last.log)].fn = "render_template"

C10_Witness ==
  /\ last.op = "send_username_changed_email"
  /\ ~NoSend
  /\ last.outcome = SendFunctionError

(***************************************************************************)
(* Properties of the dispatcher and the backends (checked under            *)
(* SpecBackend)                                                            *)
(***************************************************************************)

IsSend == last.op = "send_email"
ViaSendGrid == IsSend /\ app.mail = "sendgrid"
ViaFlaskMail == IsSend /\ app.mail # "sendgrid"

\* the messages the call posted to the SendGrid client
Posted == {last.log[i].a : i \in CallsOf(last.log, "sendgrid_post")}

\* the try block of flask_send_email was entered and raised
RaisedInTry ==
  /\ ViaFlaskMail /\ app.flask_mail_installed /\ app.mail_ext
  /\ last.env.raises # "none"

\* C4 as stated: a network error becomes the connection send-error, an
\* authentication failure the authentication send-error (never the connection
\* error), and every other exception reaches the caller unmodified
C4_Original ==
  RaisedInTry =>
     last.outcome =
       IF last.env.raises \in {"socket.gaierror", "socket.error"}
       THEN CONNECTION_ERROR
       ELSE IF last.env.raises = "smtplib.SMTPAuthenticationError"
       THEN AUTHENTICATION_ERROR
       ELSE last.env.raises

NoMessage ==
  /\ NumCalls(last.log, "Message") = 0
  /\ NumCalls(last.log, "mail_engine.send") = 0

\* C5: without the 'mail' extension flask_send_email raises the "not
\* initialized" error, constructing and sending nothing; the import check
\* comes first, so a missing library gives "not installed" instead
C5_NotInitialized ==
  ViaFlaskMail =>
     /\ (app.flask_mail_installed /\ ~app.mail_ext) =>
          (last.outcome = NOT_INITIALIZED /\ NoMessage)
     /\ ~app.flask_mail_installed =>
          (last.outcome = NOT_INSTALLED /\ NoMessage)

C5_Witness ==
  /\ ViaFlaskMail
  /\ app.flask_mail_installed /\ ~app.mail_ext
  /\ last.env.raises = "socket.error"
  /\ last.outcome = NOT_INITIALIZED

\* the marker, if any, that starts at position i of s
MarkerAt(s, i) ==
  {k \in 1..Len(MarkerSpellings) : StartsWithAt(s, i, MarkerSpellings[k])}

HasMarker(s) == \E i \in 1..Len(s) : MarkerAt(s, i) # {}

\* s with every occurrence of a marker replaced by token, in one scan
RECURSIVE Expected(_, _, _)
Expected(s, i, token) ==
  IF i > Len(s) THEN <<>>
  ELSE IF MarkerAt(s, i) # {}
       THEN token \o Expected(s, i + Len(MarkerSpellings[CHOOSE k \in MarkerAt(s, i) : TRUE]),
                              token)
       ELSE <<s[i]>> \o Expected(s, i + 1, token)

ArgValues(mail, key) ==
  {mail.custom_args[i].value :
     i \in {j \in 1..Len(mail.custom_args) : mail.custom_args[j].key = key}}

\* C6: sg_send_email obtains exactly one token per call; every occurrence of
\* each of the four markers in the text and the html body is replaced by it,
\* it is the value of the 'token' custom argument, and a body without markers
\* is submitted unchanged
C6_TokenSubstitution ==
  ViaSendGrid =>
     /\ NumCalls(last.log, "get_next_token") = 1
     /\ Posted # {}
     /\ \A mail \in Posted :
          /\ ArgValues(mail, "token") = {last.env.token}
          /\ mail.content[1].value = Expected(last.args.text_message, 1, last.env.token)
          /\ mail.content[2].value = Expected(last.args.html_message, 1, last.env.token)
          /\ ~HasMarker(mail.content[1].value)
          /\ ~HasMarker(mail.content[2].value)
          /\ ~HasMarker(last.args.text_message) =>
               mail.content[1].value = last.args.text_message
          /\ ~HasMarker(last.args.html_message) =>
               mail.content[2].value = last.args.html_message

C6_Witness ==
  /\ ViaSendGrid
  /\ last.args.text_message = AllMarkers
  /\ Contains(last.args.html_message, MarkerSpellings[2])
  /\ \E mail \in Posted :
       LET t == last.env.token
       IN  mail.content[1].value = t \o t \o <<" ">> \o t \o <<"[">> \o t \o <<"]">> \o t

\* reading back a JSON object of strings: the string literal that opens at
\* position i of s (s[i] is the quote), and the position after it
RECURSIVE JsonReadString(_, _, _)
JsonReadString(s, i, acc) ==
  IF i > Len(s) THEN [value |-> acc, next |-> i]
  ELSE IF s[i] = "\"" THEN [value |-> acc, next |-> i + 1]
  ELSE IF s[i] = "\\" THEN JsonReadString(s, i + 2, Append(acc, s[i + 1]))
  ELSE JsonReadString(s, i + 1, Append(acc, s[i]))

\* the (key, value) pairs of the object, reading from position i
RECURSIVE JsonReadMembers(_, _)
JsonReadMembers(s, i) ==
  IF i > Len(s) \/ s[i] = "}" THEN <<>>
  ELSE IF s[i] # "\"" THEN JsonReadMembers(s, i + 1)
  ELSE LET key == JsonReadString(s, i + 1, <<>>)
           \* skip the ": " separator to the opening quote of the value
           val == JsonReadString(s, key.next + 3, <<>>)
       IN  << <<key.value, val.value>> >> \o JsonReadMembers(s, val.next)

JsonLoads(s) == JsonReadMembers(s, 2)

JsonGet(s, key) ==
  {JsonLoads(s)[i][2] : i \in {j \in 1..Len(JsonLoads(s)) : JsonLoads(s)[j][1] = key}}

TYPE_KEY == <<"t","y","p","e">>

\* C7: every message sg_send_email submits has exactly one personalization
\* with exactly one recipient, the given one, exactly two content blocks,
\* text/plain then text/html, and a 'meta' custom argument whose decoded
\* 'type' is the category passed in
C7_MessageShape ==
  ViaSendGrid =>
     /\ Cardinality(CallsOf(last.log, "sendgrid_post")) = 1
     /\ \A mail \in Posted :
          /\ Len(mail.personalizations) = 1
          /\ mail.personalizations[1].tos = <<last.args.recipient>>
          /\ Len(mail.content) = 2
          /\ mail.content[1].type = "text/plain"
          /\ mail.content[2].type = "text/html"
          /\ Cardinality(ArgValues(mail, "meta")) = 1
          /\ \A meta \in ArgValues(mail, "meta") :
               JsonGet(meta, TYPE_KEY) = {last.args.typ}

C7_Witness ==
  /\ ViaSendGrid
  /\ last.args.typ = CAT_FORGOT_PASSWORD
  /\ last.args.recipient = "alt@example.com"
  /\ Contains(app.MAIL_FRIENDLY_FROM, <<"\"">>)
  /\ last.outcome = Return

SendGridCalls == {"get_next_token", "sendgrid_post"}
FlaskMailCalls == {"Message", "mail_engine.send"}
BackendEntries == {"sg_send_email", "flask_send_email"}

\* C8: send_email hands each call to exactly one backend, sg_send_email if
\* and only if config["mail"] is the literal "sendgrid" and flask_send_email
\* for every other value, with the five arguments unchanged; the other
\* backend is not invoked
C8_Dispatch ==
  IsSend =>
     /\ Cardinality({i \in 1..Len(last.log) : last.log[i].fn \in BackendEntries}) = 1
     /\ last.log[1].fn =
          IF app.mail = "sendgrid" THEN "sg_send_email" ELSE "flask_send_email"
     /\ last.log[1].a = last.args
     /\ \A i \in 2..Len(last.log) :
          last.log[i].fn \in
            (IF app.mail = "sendgrid" THEN SendGridCalls ELSE FlaskMailCalls)
     /\ app.mail = "sendgrid" <=> Posted # {}

C8_Witness ==
  /\ IsSend
  /\ app.mail = "SendGrid"
  /\ last.log[1].fn = "flask_send_email"
  /\ NumCalls(last.log, "mail_engine.send") = 1

====
